---- MODULE Spec2Model ----
(***************************************************************************)
(* CspChan: CSP-style channels on pthreads (src/CspChan.c).                *)
(*                                                                         *)
(* Every step of a thread is one action.  A step ends at each operation    *)
(* another thread can observe: a lock, trylock or unlock of srMtx, a wait  *)
(* on or a signal of a condition variable, an unlocked read of c->closed.  *)
(* The observer registry is guarded by observerMtx, whose critical         *)
(* sections never block, so add_observer, remove_observer and signal_all   *)
(* are single steps.  The select frame's private mutex is only ever taken  *)
(* by its own thread and is left out.  A payload is one value; 0 is the    *)
(* all-zero payload.  pthread_cond_signal wakes exactly one waiter when    *)
(* there is one.  A wait may also return spuriously, but no fairness is    *)
(* assumed of that.  srMtx is a default (non-recursive) mutex: a thread    *)
(* that locks it while it is held, by anyone, blocks.                      *)
(***************************************************************************)
EXTENDS Integers, Sequences, FiniteSets, TLC

SignalsCount == 3

MaxQueueLen == 2
MaxMsgs == 3
MaxVal == 2

Threads == {"T1", "T2", "T3", "T4"}
Chans == {"a", "b"}
NoThread == "none"
NoChan == "nochan"
Wild == "wild"
Uninit == -1

Vals == 1..MaxVal

VARIABLES chan, th, todo, sent, rcvd

vars == <<chan, th, todo, sent, rcvd>>

----------------------------------------------------------------------------
(* Channel construction.  The frame of a select carries three history fields
   besides the code's locals: txn (the commit changed the channel), allClosed
   and calledClosed (every arm's channel was closed when anyready decided,
   when the call was made) and skipped (a trylock failed in this poll). *)

EmptyNode == [k \in 1..SignalsCount |-> NoThread]

CspChan_create(queueLen) ==
    [ closed |-> FALSE,
      unbuffered |-> (queueLen = 0),
      barrierPhase |-> 0,
      expectingSender |-> FALSE,
      dataPtr |-> NoThread,
      queueLen |-> queueLen,
      msgCount |-> 0,
      rIdx |-> 0,
      wIdx |-> 0,
      data |-> [k \in 0..(queueLen - 1) |-> Uninit],
      srMtx |-> NoThread,
      observer |-> <<EmptyNode>> ]

NoFrame ==
    [ arms |-> <<>>, rCount |-> 0, data |-> <<>>, ready |-> <<>>,
      i |-> 0, n |-> 0, nclosed |-> 0, blocking |-> FALSE, txn |-> FALSE,
      allClosed |-> FALSE, calledClosed |-> FALSE, skipped |-> FALSE ]

IdleThread ==
    [ pc |-> "idle", op |-> "none", c |-> NoChan, buf |-> 0, xfer |-> FALSE,
      ret |-> 0, sel |-> NoFrame ]

(* A call the program of a thread may make.  src is the set of payloads it
   may pass to send or to a send arm; dst is what its destination buffer may
   hold before a receive: the caller's variable holds any value. *)
PlainCall(op, c) ==
    [op |-> op, c |-> c, arms |-> <<>>, rCount |-> 0, src |-> Vals, dst |-> 0..MaxVal]
SelectCall(op, r, s) ==
    [op |-> op, c |-> NoChan, arms |-> r \o s, rCount |-> Len(r),
     src |-> Vals, dst |-> 0..MaxVal]

(* The call d with payload v and a zeroed destination buffer. *)
WithData(d, v) == [d EXCEPT !.src = {v}, !.dst = {0}]

----------------------------------------------------------------------------
(* Ring buffer *)

is_full_off_by_one(ch) == ch.msgCount > ch.queueLen

is_full(ch) == ch.msgCount = ch.queueLen

is_empty(ch) == ch.msgCount = 0

send_skip_advance(ch, v) ==
    IF ch.closed THEN ch
    ELSE [ch EXCEPT !.data[ch.wIdx] = v, !.msgCount = @ + 1]

send_ignore_closed(ch, v) ==
    [ch EXCEPT !.data[ch.wIdx] = v,
               !.wIdx = (ch.wIdx + 1) % ch.queueLen,
               !.msgCount = @ + 1]

send(ch, v) ==
    IF ch.closed THEN ch
    ELSE [ch EXCEPT !.data[ch.wIdx] = v,
                    !.wIdx = (ch.wIdx + 1) % ch.queueLen,
                    !.msgCount = @ + 1]

receive(ch) ==
    IF ch.closed THEN ch
    ELSE [ch EXCEPT !.rIdx = (ch.rIdx + 1) % ch.queueLen,
                    !.msgCount = @ - 1]

(* The destination buffer after receive(ch, dst). *)
receive_data(ch, dst) ==
    IF ch.closed THEN dst ELSE ch.data[ch.rIdx]

----------------------------------------------------------------------------
(* Signal registry *)

Registered(reg) ==
    {reg[j][k] : j \in 1..Len(reg), k \in 1..SignalsCount} \ {NoThread}

Slots(reg) == {<<j, k>> : j \in 1..Len(reg), k \in 1..SignalsCount}

SlotBefore(p, q) == p[1] < q[1] \/ (p[1] = q[1] /\ p[2] < q[2])

FirstSlot(reg, x) ==
    LET hit == {p \in Slots(reg) : reg[p[1]][p[2]] = x}
    IN  IF hit = {} THEN <<0, 0>>
        ELSE CHOOSE p \in hit : \A q \in hit : p = q \/ SlotBefore(p, q)

(* A malloc'ed extension node: slot 0 is set, the others are not initialised. *)
NewNodes(sig) ==
    {[k \in 1..SignalsCount |-> IF k = 1 THEN sig ELSE g[k]] :
        g \in [2..SignalsCount -> Threads \cup {NoThread, Wild}]}

(* The registries add_observer(c, sig) can leave behind. *)
add_observer(reg, sig) ==
    LET p == FirstSlot(reg, NoThread)
    IN  IF p # <<0, 0>>
        THEN {[reg EXCEPT ![p[1]][p[2]] = sig]}
        ELSE {<<reg[1]>> \o <<node>> \o SubSeq(reg, 2, Len(reg)) : node \in NewNodes(sig)}

remove_observer(reg, sig) ==
    LET p == FirstSlot(reg, sig)
    IN  IF p # <<0, 0>> THEN [reg EXCEPT ![p[1]][p[2]] = NoThread] ELSE reg

(* A select woken from its frame condvar polls again from the first arm. *)
Repoll(T, u) ==
    [T[u] EXCEPT !.pc = "ar_closed",
                 !.sel.i = 0, !.sel.n = 0, !.sel.nclosed = 0, !.sel.skipped = FALSE,
                 !.sel.ready = [k \in 1..Len(T[u].sel.arms) |-> FALSE]]

(* signal_all(c): one pthread_cond_signal per non-null slot. *)
signal_all(T, ch) ==
    [u \in Threads |->
        IF u \in Registered(ch.observer) /\ T[u].pc = "sel_wait"
        THEN Repoll(T, u) ELSE T[u]]

----------------------------------------------------------------------------
(* Channel condition variables *)

WaitA == {"send_wait", "sync_waitA"}
WaitB == {"recv_wait", "sync_waitB"}

Relock(p) ==
    CASE p = "send_wait" -> "send_relock"
      [] p = "recv_wait" -> "recv_relock"
      [] p = "sync_waitA" -> "sync_relockA"
      [] p = "sync_waitB" -> "sync_relockB"

Waiters(T, c, W) == {u \in Threads : T[u].c = c /\ T[u].pc \in W}

(* pthread_cond_signal: the thread states it can leave behind. *)
cond_signal(T, c, W) ==
    IF Waiters(T, c, W) = {} THEN {T}
    ELSE {[T EXCEPT ![u].pc = Relock(@)] : u \in Waiters(T, c, W)}

cond_broadcast(T, c, W) ==
    [u \in Threads |-> IF u \in Waiters(T, c, W) THEN [T[u] EXCEPT !.pc = Relock(@)] ELSE T[u]]

----------------------------------------------------------------------------
(* Calls: a thread takes the next call of its program. *)

NextCall(t, op) ==
    IF th[t].pc = "idle" /\ todo[t] # <<>>
    THEN {d \in Head(todo[t]) : d.op = op} ELSE {}

Enter(t, d, pc0, v) ==
    [th[t] EXCEPT !.pc = pc0, !.op = d.op, !.c = d.c, !.buf = v, !.xfer = FALSE,
                  !.ret = 0, !.sel = NoFrame]

CallSend(t) ==
    \E d \in NextCall(t, "send") : \E v \in d.src :
        /\ th' = [th EXCEPT ![t] = Enter(t, d, "send_lock", v)]
        /\ todo' = [todo EXCEPT ![t] = Tail(@)]
        /\ sent' = [sent EXCEPT ![d.c] = Append(@, v)]
        /\ UNCHANGED <<chan, rcvd>>

CallReceive(t) ==
    \E d \in NextCall(t, "receive") : \E v \in d.dst :
        /\ th' = [th EXCEPT ![t] = Enter(t, d, "recv_lock", v)]
        /\ todo' = [todo EXCEPT ![t] = Tail(@)]
        /\ UNCHANGED <<chan, sent, rcvd>>

CallClose(t) ==
    \E d \in NextCall(t, "close") :
        /\ th' = [th EXCEPT ![t] = Enter(t, d, "close_lock", 0)]
        /\ todo' = [todo EXCEPT ![t] = Tail(@)]
        /\ UNCHANGED <<chan, sent, rcvd>>

----------------------------------------------------------------------------
(* CspChan_send *)

Me(t) == th[t]
Ch(t) == chan[th[t].c]

SendLock(t) ==
    /\ th[t].pc = "send_lock"
    /\ Ch(t).srMtx = NoThread
    /\ chan' = [chan EXCEPT ![th[t].c].srMtx = t]
    /\ th' = [th EXCEPT ![t].pc = IF Ch(t).unbuffered THEN "sync_start" ELSE "send_loop"]
    /\ UNCHANGED <<todo, sent, rcvd>>

SendLoop(t) ==
    /\ th[t].pc = "send_loop"
    /\ IF ~Ch(t).closed /\ is_full(Ch(t))
       THEN /\ chan' = [chan EXCEPT ![th[t].c].srMtx = NoThread]
            /\ th' = [th EXCEPT ![t].pc = "send_wait"]
       ELSE /\ chan' = [chan EXCEPT ![th[t].c] = [send(@, th[t].buf) EXCEPT !.srMtx = NoThread]]
            /\ th' = [th EXCEPT ![t].pc = "send_sigall", ![t].xfer = ~Ch(t).closed]
    /\ UNCHANGED <<todo, sent, rcvd>>

SendRelock(t) ==
    /\ th[t].pc = "send_relock"
    /\ Ch(t).srMtx = NoThread
    /\ chan' = [chan EXCEPT ![th[t].c].srMtx = t]
    /\ th' = [th EXCEPT ![t].pc = "send_loop"]
    /\ UNCHANGED <<todo, sent, rcvd>>

SendSignalAll(t) ==
    /\ th[t].pc = "send_sigall"
    /\ th' = signal_all([th EXCEPT ![t].pc = "send_sigB"], Ch(t))
    /\ UNCHANGED <<chan, todo, sent, rcvd>>

SendSignalB(t) ==
    /\ th[t].pc = "send_sigB"
    /\ th' \in cond_signal([th EXCEPT ![t].pc = "idle"], th[t].c, WaitB)
    /\ UNCHANGED <<chan, todo, sent, rcvd>>

----------------------------------------------------------------------------
(* CspChan_receive *)

(* A receive that returns appends what it received to the channel's history. *)
Received(t) ==
    IF th[t].xfer THEN [rcvd EXCEPT ![th[t].c] = Append(@, th[t].buf)] ELSE rcvd

(* Lines 272-278: on a closed channel the call zero-fills and returns; srMtx
   stays locked by the caller. *)
RecvLock(t) ==
    /\ th[t].pc = "recv_lock"
    /\ Ch(t).srMtx = NoThread
    /\ chan' = [chan EXCEPT ![th[t].c].srMtx = t]
    /\ IF Ch(t).closed
       THEN th' = [th EXCEPT ![t].pc = "idle", ![t].buf = 0]
       ELSE th' = [th EXCEPT ![t].pc = IF Ch(t).unbuffered THEN "sync_start" ELSE "recv_loop"]
    /\ UNCHANGED <<todo, sent, rcvd>>

RecvLoop(t) ==
    /\ th[t].pc = "recv_loop"
    /\ IF ~Ch(t).closed /\ is_empty(Ch(t))
       THEN /\ chan' = [chan EXCEPT ![th[t].c].srMtx = NoThread]
            /\ th' = [th EXCEPT ![t].pc = "recv_wait"]
       ELSE /\ chan' = [chan EXCEPT ![th[t].c] = [receive(@) EXCEPT !.srMtx = NoThread]]
            /\ th' = [th EXCEPT ![t].pc = "recv_sigall",
                                ![t].buf = receive_data(Ch(t), @),
                                ![t].xfer = ~Ch(t).closed]
    /\ UNCHANGED <<todo, sent, rcvd>>

RecvRelock(t) ==
    /\ th[t].pc = "recv_relock"
    /\ Ch(t).srMtx = NoThread
    /\ chan' = [chan EXCEPT ![th[t].c].srMtx = t]
    /\ th' = [th EXCEPT ![t].pc = "recv_loop"]
    /\ UNCHANGED <<todo, sent, rcvd>>

RecvSignalAll(t) ==
    /\ th[t].pc = "recv_sigall"
    /\ th' = signal_all([th EXCEPT ![t].pc = "recv_sigA"], Ch(t))
    /\ UNCHANGED <<chan, todo, sent, rcvd>>

RecvSignalA_no_signal(t) ==
    /\ th[t].pc = "recv_sigA"
    /\ th' = [th EXCEPT ![t].pc = "idle"]
    /\ rcvd' = Received(t)
    /\ UNCHANGED <<chan, todo, sent>>

RecvSignalA(t) ==
    /\ th[t].pc = "recv_sigA"
    /\ th' \in cond_signal([th EXCEPT ![t].pc = "idle"], th[t].c, WaitA)
    /\ rcvd' = Received(t)
    /\ UNCHANGED <<chan, todo, sent>>

----------------------------------------------------------------------------
(* synctwo: the rendezvous of an unbuffered channel; srMtx is held on entry *)

IsSender(t) == th[t].op = "send"

Handoff_reversed(T, t, first) ==
    IF T[t].op = "send"
    THEN [T EXCEPT ![t].buf = T[first].buf, ![first].xfer = TRUE, ![t].xfer = TRUE]
    ELSE [T EXCEPT ![first].buf = T[t].buf, ![first].xfer = TRUE, ![t].xfer = TRUE]

(* The second party copies between its payload and the first party's. *)
Handoff(T, t, first) ==
    IF T[t].op = "send"
    THEN [T EXCEPT ![first].buf = T[t].buf, ![first].xfer = TRUE, ![t].xfer = TRUE]
    ELSE [T EXCEPT ![t].buf = T[first].buf, ![first].xfer = TRUE, ![t].xfer = TRUE]

SyncReturn(t) == IF th[t].op = "receive" THEN Received(t) ELSE rcvd

SyncStart_no_role_check(t) ==
    /\ th[t].pc = "sync_start"
    /\ LET ch == Ch(t)
           c  == th[t].c
       IN  IF ch.closed
           THEN /\ chan' = [chan EXCEPT ![c].srMtx = NoThread]
                /\ th' = [th EXCEPT ![t].pc = "idle"]
                /\ rcvd' = SyncReturn(t)
           ELSE /\ rcvd' = rcvd
                /\ CASE ch.barrierPhase = 0 ->
                          /\ chan' = [chan EXCEPT ![c].barrierPhase = 1,
                                                  ![c].expectingSender = ~IsSender(t),
                                                  ![c].dataPtr = t]
                          /\ th' = signal_all([th EXCEPT ![t].pc = "sync_first"], ch)
                     [] ch.barrierPhase = 1 ->
                          /\ chan' = [chan EXCEPT ![c].barrierPhase = 2,
                                                  ![c].srMtx = NoThread]
                          /\ th' = Handoff([th EXCEPT ![t].pc = "sync_sigA"], t, ch.dataPtr)
                     [] ch.barrierPhase = 2 ->
                          /\ chan' = [chan EXCEPT ![c].srMtx = NoThread]
                          /\ th' = [th EXCEPT ![t].pc = "sync_waitB"]
    /\ UNCHANGED <<todo, sent>>

SyncStart_keep_waiting(t) ==
    /\ th[t].pc = "sync_start"
    /\ LET ch == Ch(t)
           c  == th[t].c
       IN  IF ch.closed
           THEN /\ chan' = [chan EXCEPT ![c].srMtx = NoThread]
                /\ th' = [th EXCEPT ![t].pc = "idle"]
                /\ rcvd' = SyncReturn(t)
           ELSE /\ rcvd' = rcvd
                /\ CASE ch.barrierPhase = 0 ->
                          /\ chan' = [chan EXCEPT ![c].barrierPhase = 1,
                                                  ![c].expectingSender = ~IsSender(t),
                                                  ![c].dataPtr = t]
                          /\ th' = signal_all([th EXCEPT ![t].pc = "sync_first"], ch)
                     [] ch.barrierPhase = 1 /\ ch.expectingSender # IsSender(t) ->
                          /\ chan' = [chan EXCEPT ![c].srMtx = NoThread]
                          /\ th' = [th EXCEPT ![t].pc = "sync_waitB"]
                     [] ch.barrierPhase = 1 /\ ch.expectingSender = IsSender(t) ->
                          /\ chan' = [chan EXCEPT ![c].srMtx = NoThread]
                          /\ th' = Handoff([th EXCEPT ![t].pc = "sync_sigA"], t, ch.dataPtr)
                     [] ch.barrierPhase = 2 ->
                          /\ chan' = [chan EXCEPT ![c].srMtx = NoThread]
                          /\ th' = [th EXCEPT ![t].pc = "sync_waitB"]
    /\ UNCHANGED <<todo, sent>>

SyncStart(t) ==
    /\ th[t].pc = "sync_start"
    /\ LET ch == Ch(t)
           c  == th[t].c
       IN  IF ch.closed
           THEN /\ chan' = [chan EXCEPT ![c].srMtx = NoThread]
                /\ th' = [th EXCEPT ![t].pc = "idle"]
                /\ rcvd' = SyncReturn(t)
           ELSE /\ rcvd' = rcvd
                /\ CASE ch.barrierPhase = 0 ->
                          /\ chan' = [chan EXCEPT ![c].barrierPhase = 1,
                                                  ![c].expectingSender = ~IsSender(t),
                                                  ![c].dataPtr = t]
                          /\ th' = signal_all([th EXCEPT ![t].pc = "sync_first"], ch)
                     [] ch.barrierPhase = 1 /\ ch.expectingSender # IsSender(t) ->
                          /\ chan' = [chan EXCEPT ![c].srMtx = NoThread]
                          /\ th' = [th EXCEPT ![t].pc = "sync_waitB"]
                     [] ch.barrierPhase = 1 /\ ch.expectingSender = IsSender(t) ->
                          /\ chan' = [chan EXCEPT ![c].barrierPhase = 2,
                                                  ![c].srMtx = NoThread]
                          /\ th' = Handoff([th EXCEPT ![t].pc = "sync_sigA"], t, ch.dataPtr)
                     [] ch.barrierPhase = 2 ->
                          /\ chan' = [chan EXCEPT ![c].srMtx = NoThread]
                          /\ th' = [th EXCEPT ![t].pc = "sync_waitB"]
    /\ UNCHANGED <<todo, sent>>

(* Lines 215-218: the first party waits for the handoff or for close. *)
SyncFirst(t) ==
    /\ th[t].pc = "sync_first"
    /\ IF ~Ch(t).closed /\ Ch(t).barrierPhase # 2
       THEN /\ chan' = [chan EXCEPT ![th[t].c].srMtx = NoThread]
            /\ th' = [th EXCEPT ![t].pc = "sync_waitA"]
       ELSE /\ chan' = [chan EXCEPT ![th[t].c].barrierPhase = 0,
                                    ![th[t].c].srMtx = NoThread]
            /\ th' = [th EXCEPT ![t].pc = "sync_sigB"]
    /\ UNCHANGED <<todo, sent, rcvd>>

SyncRelockA(t) ==
    /\ th[t].pc = "sync_relockA"
    /\ Ch(t).srMtx = NoThread
    /\ chan' = [chan EXCEPT ![th[t].c].srMtx = t]
    /\ th' = [th EXCEPT ![t].pc = "sync_first"]
    /\ UNCHANGED <<todo, sent, rcvd>>

SyncRelockB(t) ==
    /\ th[t].pc = "sync_relockB"
    /\ Ch(t).srMtx = NoThread
    /\ chan' = [chan EXCEPT ![th[t].c].srMtx = t]
    /\ th' = [th EXCEPT ![t].pc = "sync_start"]
    /\ UNCHANGED <<todo, sent, rcvd>>

SyncSignalB(t) ==
    /\ th[t].pc = "sync_sigB"
    /\ th' \in cond_signal([th EXCEPT ![t].pc = "idle"], th[t].c, WaitB)
    /\ rcvd' = SyncReturn(t)
    /\ UNCHANGED <<chan, todo, sent>>

SyncSignalA(t) ==
    /\ th[t].pc = "sync_sigA"
    /\ th' \in cond_signal([th EXCEPT ![t].pc = "idle"], th[t].c, WaitA)
    /\ rcvd' = SyncReturn(t)
    /\ UNCHANGED <<chan, todo, sent>>

----------------------------------------------------------------------------
(* CspChan_close *)

CloseLock(t) ==
    /\ th[t].pc = "close_lock"
    /\ Ch(t).srMtx = NoThread
    /\ chan' = [chan EXCEPT ![th[t].c].srMtx = t]
    /\ th' = [th EXCEPT ![t].pc = "close_set"]
    /\ UNCHANGED <<todo, sent, rcvd>>

CloseSet_toggle(t) ==
    /\ th[t].pc = "close_set"
    /\ chan' = [chan EXCEPT ![th[t].c].closed = ~@, ![th[t].c].srMtx = NoThread]
    /\ th' = [th EXCEPT ![t].pc = "close_sigall"]
    /\ UNCHANGED <<todo, sent, rcvd>>

CloseSet(t) ==
    /\ th[t].pc = "close_set"
    /\ chan' = [chan EXCEPT ![th[t].c].closed = TRUE, ![th[t].c].srMtx = NoThread]
    /\ th' = [th EXCEPT ![t].pc = "close_sigall"]
    /\ UNCHANGED <<todo, sent, rcvd>>

CloseSignalAll(t) ==
    /\ th[t].pc = "close_sigall"
    /\ th' = signal_all([th EXCEPT ![t].pc = "close_bcastB"], Ch(t))
    /\ UNCHANGED <<chan, todo, sent, rcvd>>

CloseBroadcastB(t) ==
    /\ th[t].pc = "close_bcastB"
    /\ th' = cond_broadcast([th EXCEPT ![t].pc = "close_bcastA"], th[t].c, WaitB)
    /\ UNCHANGED <<chan, todo, sent, rcvd>>

CloseBroadcastA(t) ==
    /\ th[t].pc = "close_bcastA"
    /\ th' = cond_broadcast([th EXCEPT ![t].pc = "idle"], th[t].c, WaitA)
    /\ UNCHANGED <<chan, todo, sent, rcvd>>

(* CspChan_closed(c): the closed flag, or true for a null handle. *)
CspChan_closed(c) == IF c = NoChan THEN TRUE ELSE chan[c].closed

----------------------------------------------------------------------------
(* CspChan_select and CspChan_nb_select.  Arm k of the combined index space
   (0-based, receivers first) is arms[k + 1]; its data pointer is data[k + 1]. *)

Arm(f, k) == f.arms[k + 1]

NewFrame(d, v, w, blocking) ==
    [ arms |-> d.arms, rCount |-> d.rCount,
      data |-> [k \in 1..Len(d.arms) |-> IF k <= d.rCount THEN v ELSE w],
      ready |-> [k \in 1..Len(d.arms) |-> FALSE],
      i |-> 0, n |-> 0, nclosed |-> 0, blocking |-> blocking, txn |-> FALSE,
      allClosed |-> FALSE,
      calledClosed |-> \A k \in 1..Len(d.arms) : chan[d.arms[k]].closed,
      skipped |-> FALSE ]

EnterSelect(t, d, pc0, v, w, blocking) ==
    /\ d.rCount = 0 => v = 0
    /\ d.rCount = Len(d.arms) => w = 1
    /\ th' = [th EXCEPT ![t] = [Enter(t, d, pc0, 0) EXCEPT !.sel = NewFrame(d, v, w, blocking)]]
    /\ todo' = [todo EXCEPT ![t] = Tail(@)]
    /\ UNCHANGED <<chan, sent, rcvd>>

CallSelect(t) ==
    \E d \in NextCall(t, "select") : \E v \in d.dst, w \in d.src :
        EnterSelect(t, d, "sel_attach", v, w, TRUE)

CallNbSelect(t) ==
    \E d \in NextCall(t, "nb_select") : \E v \in d.dst, w \in d.src :
        EnterSelect(t, d, "ar_closed", v, w, FALSE)

(* Lines 412-418: one add_observer per arm, then the first poll. *)
SelAttach(t) ==
    /\ th[t].pc = "sel_attach"
    /\ LET f == th[t].sel
           c == Arm(f, f.i)
           last == f.i + 1 = Len(f.arms)
       IN  /\ \E reg \in add_observer(chan[c].observer, t) :
                 chan' = [chan EXCEPT ![c].observer = reg]
           /\ th' = [th EXCEPT ![t].sel.i = IF last THEN 0 ELSE f.i + 1,
                               ![t].pc = IF last THEN "ar_closed" ELSE "sel_attach"]
    /\ UNCHANGED <<todo, sent, rcvd>>

(* anyready: i++ and the loop test of line 301. *)
Advance(f) == [f EXCEPT !.i = @ + 1]

AfterArm(f) == IF f.i + 1 = Len(f.arms) THEN "ar_done" ELSE "ar_closed"

(* Line 311: c->closed is read without srMtx. *)
AnyreadyClosed(t) ==
    /\ th[t].pc = "ar_closed"
    /\ LET f == th[t].sel
       IN  IF chan[Arm(f, f.i)].closed
           THEN th' = [th EXCEPT ![t].sel = Advance([f EXCEPT !.nclosed = @ + 1]),
                                 ![t].pc = AfterArm(f)]
           ELSE th' = [th EXCEPT ![t].pc = "ar_trylock"]
    /\ UNCHANGED <<chan, todo, sent, rcvd>>

(* Line 315 and 339-340: pthread_mutex_trylock. *)
AnyreadyTrylock(t) ==
    /\ th[t].pc = "ar_trylock"
    /\ LET f == th[t].sel
           c == Arm(f, f.i)
       IN  IF chan[c].srMtx = NoThread
           THEN /\ chan' = [chan EXCEPT ![c].srMtx = t]
                /\ th' = [th EXCEPT ![t].pc = "ar_test"]
           ELSE /\ chan' = chan
                /\ th' = [th EXCEPT ![t].sel = Advance([f EXCEPT !.skipped = TRUE]),
                                    ![t].pc = AfterArm(f)]
    /\ UNCHANGED <<todo, sent, rcvd>>

(* Lines 317-328: the readiness of arm k for a channel whose srMtx is held. *)
arm_ok_any_busy_phase(ch, k, rCount) ==
    IF ch.unbuffered
    THEN ch.barrierPhase >= 1 /\
            ((ch.expectingSender /\ k >= rCount) \/ (~ch.expectingSender /\ k < rCount))
    ELSE IF k < rCount THEN ~is_empty(ch) ELSE ~is_full(ch)

arm_ok(ch, k, rCount) ==
    IF ch.unbuffered
    THEN ch.barrierPhase = 1 /\
            ((ch.expectingSender /\ k >= rCount) \/ (~ch.expectingSender /\ k < rCount))
    ELSE IF k < rCount THEN ~is_empty(ch) ELSE ~is_full(ch)

AnyreadyTest_keep_locked(t) ==
    /\ th[t].pc = "ar_test"
    /\ LET f == th[t].sel
           c == Arm(f, f.i)
       IN  IF arm_ok(chan[c], f.i, f.rCount)
           THEN th' = [th EXCEPT ![t].sel = Advance([f EXCEPT !.ready[f.i + 1] = TRUE,
                                                            !.n = @ + 1]),
                                 ![t].pc = AfterArm(f)]
           ELSE th' = [th EXCEPT ![t].sel = Advance(f), ![t].pc = AfterArm(f)]
    /\ UNCHANGED <<chan, todo, sent, rcvd>>

(* Lines 330-338: a ready channel stays locked. *)
AnyreadyTest(t) ==
    /\ th[t].pc = "ar_test"
    /\ LET f == th[t].sel
           c == Arm(f, f.i)
       IN  IF arm_ok(chan[c], f.i, f.rCount)
           THEN /\ chan' = chan
                /\ th' = [th EXCEPT ![t].sel = Advance([f EXCEPT !.ready[f.i + 1] = TRUE,
                                                                 !.n = @ + 1]),
                                    ![t].pc = AfterArm(f)]
           ELSE /\ chan' = [chan EXCEPT ![c].srMtx = NoThread]
                /\ th' = [th EXCEPT ![t].sel = Advance(f), ![t].pc = AfterArm(f)]
    /\ UNCHANGED <<todo, sent, rcvd>>

anyready_result_ignore_closed(n, closed) == n

(* Lines 343-345: the result of anyready. *)
anyready_result(n, closed) == IF n = 0 /\ closed > 0 THEN -1 ELSE n

(* The end of anyready, and line 421-422 of CspChan_select: wait on the frame
   condvar when nothing is ready. *)
AnyreadyDone(t) ==
    /\ th[t].pc = "ar_done"
    /\ LET f == th[t].sel
           n == anyready_result(f.n, f.nclosed)
       IN  th' = [th EXCEPT ![t].sel.n = n,
                            ![t].sel.allClosed =
                                \A k \in 0..(Len(f.arms) - 1) : chan[Arm(f, k)].closed,
                            ![t].pc = IF f.blocking /\ n = 0 THEN "sel_wait" ELSE "ds_pick"]
    /\ UNCHANGED <<chan, todo, sent, rcvd>>

ReadyArms(f) == {k \in 0..(Len(f.arms) - 1) : f.ready[k + 1]}

(* The candidate-th ready arm, counted from 0. *)
NthReady(f, candidate) ==
    CHOOSE k \in ReadyArms(f) : Cardinality({j \in ReadyArms(f) : j < k}) = candidate

AfterSelect(f) == IF f.blocking THEN "sel_detach" ELSE "idle"

DoSelectPick_keep_locked(t) ==
    /\ th[t].pc = "ds_pick"
    /\ LET f == th[t].sel
       IN  IF f.n <= 0
           THEN th' = [th EXCEPT ![t].ret = -1, ![t].sel.i = 0, ![t].pc = AfterSelect(f)]
           ELSE \E candidate \in 0..(f.n - 1) :
                  th' = [th EXCEPT ![t].sel.n = NthReady(f, candidate), ![t].pc = "ds_commit"]
    /\ UNCHANGED <<chan, todo, sent, rcvd>>

(* Lines 350-368: doselect draws the candidate and unlocks the other ready
   channels. *)
DoSelectPick(t) ==
    /\ th[t].pc = "ds_pick"
    /\ LET f == th[t].sel
       IN  IF f.n <= 0
           THEN /\ th' = [th EXCEPT ![t].ret = -1, ![t].sel.i = 0, ![t].pc = AfterSelect(f)]
                /\ chan' = chan
           ELSE \E candidate \in 0..(f.n - 1) :
                  LET k == NthReady(f, candidate)
                      others == {Arm(f, j) : j \in ReadyArms(f) \ {k}}
                  IN  /\ chan' = [c \in Chans |->
                                    IF c \in others THEN [chan[c] EXCEPT !.srMtx = NoThread]
                                    ELSE chan[c]]
                      /\ th' = [th EXCEPT ![t].sel.n = k, ![t].pc = "ds_commit"]
    /\ UNCHANGED <<todo, sent, rcvd>>

(* Lines 369-394 up to the unlock of the chosen channel. *)
DoSelectCommit(t) ==
    /\ th[t].pc = "ds_commit"
    /\ LET f == th[t].sel
           k == f.n
           c == Arm(f, k)
           ch == chan[c]
           T == [th EXCEPT ![t].pc = "ds_sigall"]
       IN  IF ch.unbuffered
           THEN /\ chan' = [chan EXCEPT ![c].barrierPhase = 2, ![c].srMtx = NoThread]
                /\ IF k >= f.rCount
                   THEN /\ th' = [T EXCEPT ![ch.dataPtr].buf = f.data[k + 1],
                                           ![ch.dataPtr].xfer = TRUE,
                                           ![t].sel.txn = TRUE]
                        /\ sent' = [sent EXCEPT ![c] = Append(@, f.data[k + 1])]
                        /\ rcvd' = rcvd
                   ELSE /\ th' = [T EXCEPT ![t].sel.data[k + 1] = th[ch.dataPtr].buf,
                                           ![ch.dataPtr].xfer = TRUE,
                                           ![t].sel.txn = TRUE]
                        /\ rcvd' = [rcvd EXCEPT ![c] = Append(@, th[ch.dataPtr].buf)]
                        /\ sent' = sent
           ELSE IF k < f.rCount
                THEN /\ chan' = [chan EXCEPT ![c] = [receive(@) EXCEPT !.srMtx = NoThread]]
                     /\ th' = [T EXCEPT ![t].sel.data[k + 1] = receive_data(ch, @),
                                        ![t].sel.txn = (receive(ch) # ch)]
                     /\ rcvd' = IF receive(ch) # ch
                                THEN [rcvd EXCEPT ![c] = Append(@, receive_data(ch, 0))]
                                ELSE rcvd
                     /\ sent' = sent
                ELSE /\ chan' = [chan EXCEPT ![c] = [send(@, f.data[k + 1]) EXCEPT !.srMtx = NoThread]]
                     /\ th' = [T EXCEPT ![t].sel.txn = (send(ch, f.data[k + 1]) # ch)]
                     /\ sent' = IF send(ch, f.data[k + 1]) # ch
                                THEN [sent EXCEPT ![c] = Append(@, f.data[k + 1])]
                                ELSE sent
                     /\ rcvd' = rcvd
    /\ UNCHANGED todo

DoSelectSignalAll(t) ==
    /\ th[t].pc = "ds_sigall"
    /\ th' = signal_all([th EXCEPT ![t].pc = "ds_sigcond"], chan[Arm(th[t].sel, th[t].sel.n)])
    /\ UNCHANGED <<chan, todo, sent, rcvd>>

(* Lines 378, 386, 392, and the return of the index. *)
DoSelectSignalCond(t) ==
    /\ th[t].pc = "ds_sigcond"
    /\ LET f == th[t].sel
           c == Arm(f, f.n)
           W == IF ~chan[c].unbuffered /\ f.n >= f.rCount THEN WaitB ELSE WaitA
       IN  th' \in cond_signal([th EXCEPT ![t].ret = f.n, ![t].sel.i = 0,
                                          ![t].pc = AfterSelect(f)], c, W)
    /\ UNCHANGED <<chan, todo, sent, rcvd>>

(* Lines 426-432: one remove_observer per arm, then the return. *)
SelDetach(t) ==
    /\ th[t].pc = "sel_detach"
    /\ LET f == th[t].sel
           c == Arm(f, f.i)
           last == f.i + 1 = Len(f.arms)
       IN  /\ chan' = [chan EXCEPT ![c].observer = remove_observer(@, t)]
           /\ th' = [th EXCEPT ![t].sel.i = f.i + 1,
                               ![t].pc = IF last THEN "idle" ELSE "sel_detach"]
    /\ UNCHANGED <<todo, sent, rcvd>>

----------------------------------------------------------------------------
(* Programs and specifications *)

Repeat(k, x) == [j \in 1..k |-> x]

NoCalls == <<>>

(* The state after every channel is created with capacity q[c] and before
   thread t starts on its program P[t]. *)
InitWith(q, P) ==
    /\ chan = [c \in Chans |-> CspChan_create(q[c])]
    /\ th = [t \in Threads |-> IdleThread]
    /\ todo = P
    /\ sent = [c \in Chans |-> <<>>]
    /\ rcvd = [c \in Chans |-> <<>>]

(* Calls of the current program a thread has returned from. *)
Completed(t, total) ==
    total - Len(todo[t]) - (IF th[t].pc = "idle" THEN 0 ELSE 1)

IsPrefix(x, y) == Len(x) <= Len(y) /\ SubSeq(y, 1, Len(x)) = x

SendStep(t) ==
    \/ SendLock(t) \/ SendLoop(t) \/ SendRelock(t)
    \/ SendSignalAll(t) \/ SendSignalB(t)

RecvStep(t) ==
    \/ RecvLock(t) \/ RecvLoop(t) \/ RecvRelock(t)
    \/ RecvSignalAll(t) \/ RecvSignalA(t)

SyncStep(t) ==
    \/ SyncStart(t) \/ SyncFirst(t) \/ SyncRelockA(t) \/ SyncRelockB(t)
    \/ SyncSignalA(t) \/ SyncSignalB(t)

CloseStep(t) ==
    \/ CloseLock(t) \/ CloseSet(t) \/ CloseSignalAll(t)
    \/ CloseBroadcastB(t) \/ CloseBroadcastA(t)

SelectStep(t) ==
    \/ SelAttach(t) \/ AnyreadyClosed(t) \/ AnyreadyTrylock(t) \/ AnyreadyTest(t)
    \/ AnyreadyDone(t) \/ DoSelectPick(t) \/ DoSelectCommit(t)
    \/ DoSelectSignalAll(t) \/ DoSelectSignalCond(t) \/ SelDetach(t)

Call(t) ==
    \/ CallSend(t) \/ CallReceive(t) \/ CallClose(t)
    \/ CallSelect(t) \/ CallNbSelect(t)

(* pthread_cond_wait may return without a signal (lines 216, 226, 239, 257,
   286, 422): the caller takes its mutex again and tests its condition. *)
SpuriousWakeup(t) ==
    /\ \/ /\ th[t].pc \in WaitA \cup WaitB
          /\ th' = [th EXCEPT ![t].pc = Relock(@)]
       \/ /\ th[t].pc = "sel_wait"
          /\ th' = [th EXCEPT ![t] = Repoll(th, t)]
    /\ UNCHANGED <<chan, todo, sent, rcvd>>

(* The steps inside the library: a call that was made runs on. *)
Run(t) ==
    \/ SendStep(t) \/ RecvStep(t) \/ SyncStep(t) \/ CloseStep(t) \/ SelectStep(t)

Step(t) == Call(t) \/ Run(t) \/ SpuriousWakeup(t)

(* Three threads on channels a (any kind) and b (buffered, one slot): T1
   receives from a or selects over both, T2 sends on a, T3 closes a. *)
ProgMain ==
    [t \in Threads |->
        CASE t = "T1" -> << {SelectCall("select", <<"a", "b">>, <<>>),
                             SelectCall("nb_select", <<"a", "b">>, <<>>),
                             PlainCall("receive", "a")} >>
          [] t = "T2" -> << {PlainCall("send", "a")}, {PlainCall("send", "a")} >>
          [] t = "T3" -> << {PlainCall("close", "a")},
                            {PlainCall("close", "a")} >>
          [] OTHER -> NoCalls]

Init ==
    \E qa \in 0..MaxQueueLen :
        InitWith([c \in Chans |-> IF c = "a" THEN qa ELSE 1], ProgMain)

Next == \E t \in Threads : Step(t)

Spec == Init /\ [][Next]_vars

(* The runs in which no wait returns without a signal: POSIX allows spurious
   wakeups and promises none. *)
NextSignalled == \E t \in Threads : Call(t) \/ Run(t)

(* The scheduler eventually runs every thread that can take a step inside a
   library call; whether a thread makes its next call is up to its program. *)
FairSpec ==
    Init /\ [][NextSignalled]_vars /\ \A t \in Threads : WF_vars(Run(t))

(* One producer and one consumer on channel a, which is never closed. *)
InitPlain ==
    \E qa \in 0..MaxQueueLen :
        InitWith([c \in Chans |-> IF c = "a" THEN qa ELSE 1],
                 [t \in Threads |->
                    CASE t = "T1" -> Repeat(MaxMsgs, {PlainCall("send", "a")})
                      [] t = "T2" -> Repeat(MaxMsgs, {PlainCall("receive", "a")})
                      [] OTHER -> NoCalls])

NextPlain ==
    \E t \in Threads :
        \/ CallSend(t) \/ CallReceive(t)
        \/ SendStep(t) \/ RecvStep(t) \/ SyncStep(t)
        \/ SpuriousWakeup(t)

SpecPlain == InitPlain /\ [][NextPlain]_vars

(* Three threads on channels a (any kind) and b (buffered, one slot): T1
   selects with a receive arm on a and a send arm on b, or receives from a;
   T2 sends 1 and then 2 on a; T3 closes a and then b. *)
ProgSelect ==
    [t \in Threads |->
        CASE t = "T1" -> << {WithData(SelectCall("select", <<"a">>, <<"b">>), 1),
                             WithData(SelectCall("nb_select", <<"a">>, <<"b">>), 1),
                             WithData(PlainCall("receive", "a"), 1)} >>
          [] t = "T2" -> << {WithData(PlainCall("send", "a"), 1)},
                            {WithData(PlainCall("send", "a"), 2)} >>
          [] t = "T3" -> << {PlainCall("close", "a")}, {PlainCall("close", "b")} >>
          [] OTHER -> NoCalls]

InitSelect ==
    \E qa \in 0..MaxQueueLen :
        InitWith([c \in Chans |-> IF c = "a" THEN qa ELSE 1], ProgSelect)

SpecSelect == InitSelect /\ [][Next]_vars

(* Four threads on the unbuffered channel a: T1 and T3 send (T3 may close a
   instead), T2 receives, T4 receives or selects with a receive arm. *)
ProgSync ==
    [t \in Threads |->
        CASE t = "T1" -> << {PlainCall("send", "a")} >>
          [] t = "T2" -> << {PlainCall("receive", "a")} >>
          [] t = "T3" -> << {PlainCall("send", "a"), PlainCall("close", "a")} >>
          [] t = "T4" -> << {PlainCall("receive", "a"),
                             SelectCall("select", <<"a">>, <<>>),
                             SelectCall("nb_select", <<"a">>, <<>>)} >>]

InitSync == InitWith([c \in Chans |-> IF c = "a" THEN 0 ELSE 1], ProgSync)

(* The steps of the operations on an unbuffered channel. *)
RunSync(t) ==
    \/ SendLock(t) \/ RecvLock(t) \/ SyncStep(t) \/ CloseStep(t) \/ SelectStep(t)

NextSync == \E t \in Threads : Call(t) \/ RunSync(t) \/ SpuriousWakeup(t)

SpecSync == InitSync /\ [][NextSync]_vars

NextSyncSignalled == \E t \in Threads : Call(t) \/ RunSync(t)

FairSync ==
    InitSync /\ [][NextSyncSignalled]_vars /\ \A t \in Threads : WF_vars(RunSync(t))

(* Producers T1, T2 and consumers T3, T4 on the buffered channel a, which is
   never closed: three sends in all, and two or three receives. *)
ProgBuffered(n4) ==
    [t \in Threads |->
        CASE t = "T1" -> Repeat(2, {WithData(PlainCall("send", "a"), 1)})
          [] t = "T2" -> Repeat(1, {WithData(PlainCall("send", "a"), 2)})
          [] t = "T3" -> Repeat(1, {WithData(PlainCall("receive", "a"), 0)})
          [] OTHER -> Repeat(n4, {WithData(PlainCall("receive", "a"), 0)})]

InitBuffered ==
    \E qa \in 1..MaxQueueLen : \E n4 \in 1..2 :
        InitWith([c \in Chans |-> IF c = "a" THEN qa ELSE 1], ProgBuffered(n4))

RunBuffered(t) == SendStep(t) \/ RecvStep(t)

NextBuffered == \E t \in Threads : CallSend(t) \/ CallReceive(t) \/ RunBuffered(t)

FairBuffered ==
    InitBuffered /\ [][NextBuffered]_vars /\ \A t \in Threads : WF_vars(RunBuffered(t))

(* The unbuffered channel a under a mix of plain calls and single-arm
   selects: T1 sends 1 and then closes a, T2 receives twice, T3 offers 2 on a send
   arm, T4 polls a receive arm. *)
ProgMix ==
    [t \in Threads |->
        CASE t = "T1" -> << {WithData(PlainCall("send", "a"), 1)}, {PlainCall("close", "a")} >>
          [] t = "T2" -> Repeat(2, {WithData(PlainCall("receive", "a"), 0)})
          [] t = "T3" -> << {WithData(SelectCall("select", <<>>, <<"a">>), 2),
                             WithData(SelectCall("nb_select", <<>>, <<"a">>), 2)} >>
          [] OTHER -> << {WithData(SelectCall("select", <<"a">>, <<>>), 1),
                          WithData(SelectCall("nb_select", <<"a">>, <<>>), 1)} >>]

InitMix == InitWith([c \in Chans |-> IF c = "a" THEN 0 ELSE 1], ProgMix)

SpecMix == InitMix /\ [][NextSync]_vars

(* Selects that observe the one-slot channel a more than SignalsCount times:
   T1 names a in three arms, T2 in one, and T3 sends on a. *)
ProgObservers ==
    [t \in Threads |->
        CASE t = "T1" -> << {WithData(SelectCall("select", <<"a", "a">>, <<"a">>), 1)} >>
          [] t = "T2" -> << {WithData(SelectCall("select", <<"a">>, <<>>), 1)} >>
          [] t = "T3" -> << {WithData(PlainCall("send", "a"), 2)} >>
          [] OTHER -> NoCalls]

InitObservers == InitWith([c \in Chans |-> 1], ProgObservers)

NextObservers ==
    \E t \in Threads :
        \/ CallSelect(t) \/ CallSend(t)
        \/ SendStep(t) \/ SelectStep(t)
        \/ SpuriousWakeup(t)

SpecObservers == InitObservers /\ [][NextObservers]_vars

----------------------------------------------------------------------------
(* C1: on a buffered channel that is not closed, with one sender and one
   receiver, the payloads the completed receives returned are a prefix of
   the payloads passed to send, in order: nothing lost, duplicated or
   reordered, and every completed receive returned one. *)
C1_BufferedFifo ==
    \A c \in Chans :
        (~chan[c].unbuffered /\ ~chan[c].closed) =>
            /\ IsPrefix(rcvd[c], sent[c])
            /\ (c = "a" => Len(rcvd[c]) = Completed("T2", MaxMsgs))

C1_Witness ==
    /\ ~chan["a"].unbuffered
    /\ chan["a"].queueLen = MaxQueueLen
    /\ Len(rcvd["a"]) = MaxMsgs
    /\ rcvd["a"][1] # rcvd["a"][2]

(* C2: on an unbuffered channel that is not closed, a receive returns the
   payload of the concurrent send, whichever of the two arrived first, and
   a send has not returned before its payload was copied into the
   receiver's buffer. *)
C2_Rendezvous ==
    \A c \in Chans :
        (chan[c].unbuffered /\ ~chan[c].closed) =>
            /\ IsPrefix(rcvd[c], sent[c])
            /\ (c = "a" => Len(rcvd[c]) = Completed("T2", MaxMsgs))
            /\ \A t \in Threads :
                 (th[t].op = "send" /\ th[t].c = c /\ th[t].pc = "idle") =>
                     /\ th[t].xfer
                     /\ Completed(t, MaxMsgs) <=
                          Len(rcvd[c]) + Cardinality({u \in Threads :
                              th[u].op = "receive" /\ th[u].c = c
                              /\ th[u].pc # "idle" /\ th[u].xfer})

C2_Witness ==
    /\ chan["a"].unbuffered
    /\ Len(rcvd["a"]) = MaxMsgs
    /\ rcvd["a"][1] # rcvd["a"][2]

----------------------------------------------------------------------------
(* Where a thread stands *)

Returned(t) == th[t].pc = "idle" /\ th[t].op # "none"

InSelect(t) == th[t].op = "select" /\ th[t].pc # "idle"

ArmChans(t) == {Arm(th[t].sel, k) : k \in 0..(Len(th[t].sel.arms) - 1)}

(* Some arm of t's select is ready on an open channel. *)
SomeArmReady(t) ==
    \E k \in 0..(Len(th[t].sel.arms) - 1) :
        arm_ok(chan[Arm(th[t].sel, k)], k, th[t].sel.rCount)

(* Parked on a condvar of its channel, or woken and on its way back. *)
ParkedPlain(t) ==
    th[t].pc \in WaitA \cup WaitB \cup
                 {"send_relock", "recv_relock", "sync_relockA", "sync_relockB"}

(* C3: a blocking select whose arms are all on open channels does not stay
   parked on its frame condvar forever while one of its arms is ready. *)
C3_SelectWakesWhenReady ==
    \A t \in Threads :
        ~<>[](/\ th[t].op = "select" /\ th[t].pc = "sel_wait"
              /\ \A c \in ArmChans(t) : ~chan[c].closed
              /\ SomeArmReady(t))

(* C4: select and nb_select return an index only after the transaction of
   that arm was performed on its channel. *)
C4_IndexMeansTransaction ==
    \A t \in Threads :
        (th[t].op \in {"select", "nb_select"} /\ Returned(t) /\ th[t].ret >= 0)
            => th[t].sel.txn

(* C5: a blocking select returns -1 only if every channel of its arms was
   closed when anyready decided. *)
C5_MinusOneMeansAllClosed ==
    \A t \in Threads :
        (th[t].op = "select" /\ Returned(t) /\ th[t].ret = -1)
            => th[t].sel.allClosed

(* C6: once the channel is closed, a thread parked in a plain send or receive
   on it eventually returns. *)
C6_CloseWakesParked ==
    \A t \in Threads :
        (ParkedPlain(t) /\ chan[th[t].c].closed) ~> Returned(t)

(* C7: a blocking select that is parked, or about to park, eventually returns
   once one of its channels is closed. *)
C7_CloseWakesSelect ==
    \A t \in Threads :
        (InSelect(t) /\ \E c \in ArmChans(t) : chan[c].closed) ~> Returned(t)

(* C8: a receive that returns because the channel is closed returns a
   zero-filled destination buffer. *)
C8_ClosedReceiveZeroFills ==
    \A t \in Threads :
        (th[t].op = "receive" /\ Returned(t) /\ ~th[t].xfer) => th[t].buf = 0

(* C9: a send called after close returns. *)
C9_SendAfterCloseReturns ==
    \A t \in Threads :
        (th[t].pc = "send_lock" /\ chan[th[t].c].closed) ~> Returned(t)

(* C10: a close called on a closed channel returns. *)
C10_CloseAgainReturns ==
    \A t \in Threads :
        (th[t].pc = "close_lock" /\ chan[th[t].c].closed) ~> Returned(t)

----------------------------------------------------------------------------
(* The channels whose srMtx thread t holds. *)
Held(t) == {c \in Chans : chan[c].srMtx = t}

(* C11: no thread holds the srMtx of two different channels at the same
   time, a thread in select or nb_select over several ready channels
   included. *)
C11_OneMutexPerThread ==
    \A t \in Threads : Cardinality(Held(t)) <= 1

(* C12: in every reachable state every buffered channel has
   0 <= msgCount <= queueLen, rIdx and wIdx in [0, queueLen), and
   wIdx = (rIdx + msgCount) mod queueLen. *)
C12_RingBufferInvariant ==
    \A c \in Chans :
        ~chan[c].unbuffered =>
            /\ chan[c].msgCount \in 0..chan[c].queueLen
            /\ chan[c].rIdx \in 0..(chan[c].queueLen - 1)
            /\ chan[c].wIdx \in 0..(chan[c].queueLen - 1)
            /\ chan[c].wIdx = (chan[c].rIdx + chan[c].msgCount) % chan[c].queueLen

(* Two sends and a receive by select have moved both indices of a, and wIdx
   has wrapped; b was filled by a select. *)
C12_Witness ==
    /\ chan["a"].queueLen = MaxQueueLen
    /\ chan["a"].msgCount = 1
    /\ chan["a"].rIdx = 1
    /\ chan["a"].wIdx = (1 + 1) % MaxQueueLen
    /\ chan["a"].closed
    /\ Len(rcvd["a"]) = 1
    /\ \E t \in Threads : th[t].op = "select" /\ th[t].pc = "idle" /\ th[t].ret = 0

(* The state of a channel apart from who holds its srMtx. *)
Unlocked(ch) == [ch EXCEPT !.srMtx = NoThread]

(* Thread t is polling, or leaving doselect at once with nothing ready. *)
PollingNothing(t) ==
    \/ th[t].pc \in {"ar_closed", "ar_trylock", "ar_test", "ar_done"}
    \/ th[t].pc = "ds_pick" /\ th[t].sel.n <= 0

(* C13: nb_select never waits on a condvar; it returns an index only of an
   arm its poll found ready, so with no arm ready it returns -1; a call that
   returns -1 has performed no transaction and holds no srMtx on return; and
   no step of the poll, nor the return of -1, changes a channel apart from
   taking and releasing srMtx. *)
C13_NbSelectNoneReady ==
    /\ [](\A t \in Threads :
            th[t].op = "nb_select" =>
                /\ th[t].pc \notin {"sel_attach", "sel_wait", "sel_detach"}
                /\ (Returned(t) /\ th[t].ret >= 0) => th[t].sel.ready[th[t].ret + 1]
                /\ (Returned(t) /\ th[t].ret < 0) =>
                       /\ th[t].ret = -1
                       /\ ~th[t].sel.txn
                       /\ Held(t) = {})
    /\ [][\A t \in Threads :
            (th[t].op = "nb_select" /\ PollingNothing(t) /\ th'[t] # th[t]) =>
                /\ \A c \in Chans : Unlocked(chan'[c]) = Unlocked(chan[c])
                /\ sent' = sent /\ rcvd' = rcvd]_vars

(* nb_select has returned -1 after it locked both open channels in turn and
   found a and b empty. *)
C13_Witness ==
    \E t \in Threads :
        /\ th[t].op = "nb_select" /\ Returned(t) /\ th[t].ret = -1
        /\ ~th[t].sel.skipped /\ th[t].sel.nclosed = 0
        /\ \A c \in ArmChans(t) : ~chan[c].closed /\ is_empty(chan[c])

(* C14: a blocking select called when every channel of its arms is already
   closed never waits on its frame condvar, performs no transaction and
   returns -1. *)
C14_SelectAllClosed ==
    \A t \in Threads :
        (th[t].op = "select" /\ th[t].sel.calledClosed) =>
            /\ th[t].pc # "sel_wait"
            /\ ~th[t].sel.txn
            /\ Returned(t) => th[t].ret = -1

(* select([a], [b]) was called after close(a) and close(b) and has returned. *)
C14_Witness ==
    \E t \in Threads :
        /\ th[t].op = "select" /\ th[t].sel.calledClosed /\ Returned(t)
        /\ Cardinality(ArmChans(t)) = 2

(* C15: select and nb_select never commit on a closed channel: when doselect
   has chosen its arm and is about to commit, the channel of that arm is not
   closed. *)
C15_NoCommitOnClosed ==
    \A t \in Threads :
        th[t].pc = "ds_commit" => ~chan[Arm(th[t].sel, th[t].sel.n)].closed

(* C16: the closed flag is monotonic: once CspChan_closed(c) returns true, no
   step of send, receive, select, nb_select or close makes it return false
   again. *)
C16_ClosedMonotonic ==
    [][\A c \in Chans \cup {NoChan} : CspChan_closed(c) => CspChan_closed(c)']_vars

(* a is closed, and a second close of it and a send on it have returned. *)
C16_Witness ==
    /\ CspChan_closed("a")
    /\ \E t \in Threads : /\ th[t].op = "close" /\ Returned(t) /\ todo[t] = <<>>
    /\ \E t \in Threads : /\ th[t].op = "send" /\ Returned(t) /\ ~th[t].xfer

(* Thread f is parked as first party of channel c and thread u, of the
   opposite role, is parked on condB of c; c is open and used by plain sends
   and receives only. *)
BothParked(f, u, c) ==
    /\ chan[c].unbuffered /\ ~chan[c].closed
    /\ th[f].c = c /\ th[f].pc = "sync_waitA"
    /\ th[u].c = c /\ th[u].pc = "sync_waitB"
    /\ {th[f].op, th[u].op} = {"send", "receive"}
    /\ \A t \in Threads : th[t].op \notin {"select", "nb_select"}

(* C17: on an unbuffered channel that is not closed, a first party parked on
   condA and a thread of the opposite role parked on condB do not both stay
   parked forever. *)
C17_QueuedPartyWoken ==
    \A f, u \in Threads : \A c \in Chans : ~<>[]BothParked(f, u, c)

(* The threads that are first party of channel c: between taking the slot
   (lines 211-213) and resetting the phase (line 217). *)
FirstParties(c) ==
    {t \in Threads : th[t].c = c /\ th[t].pc \in {"sync_first", "sync_waitA", "sync_relockA"}}

(* C18: on an unbuffered channel at most one thread at a time is first party.
   The phase is Waiting or Handoff exactly while that thread holds the slot,
   and dataPtr and expectingSender are its own; while the phase is Waiting or
   Handoff no step overwrites dataPtr or expectingSender or moves the phase
   back to Waiting; only the first party resets the phase to Idle; and an
   arrival of the first party's own role parks on condB and leaves the
   channel as it was. *)
C18_OneFirstParty ==
    /\ [](\A c \in Chans :
            chan[c].unbuffered =>
                /\ Cardinality(FirstParties(c)) <= 1
                /\ (chan[c].barrierPhase # 0) <=> (FirstParties(c) # {})
                /\ chan[c].barrierPhase # 0 =>
                       /\ FirstParties(c) = {chan[c].dataPtr}
                       /\ chan[c].expectingSender = (th[chan[c].dataPtr].op = "receive"))
    /\ [][\A c \in Chans :
            (chan[c].unbuffered /\ chan[c].barrierPhase # 0) =>
                /\ chan'[c].barrierPhase # 0 =>
                       /\ chan'[c].dataPtr = chan[c].dataPtr
                       /\ chan'[c].expectingSender = chan[c].expectingSender
                       /\ chan'[c].barrierPhase >= chan[c].barrierPhase
                /\ chan'[c].barrierPhase = 0 =>
                       /\ th[chan[c].dataPtr].pc = "sync_first"
                       /\ th'[chan[c].dataPtr].pc = "sync_sigB"
                /\ \A t \in Threads :
                       (/\ th[t].c = c /\ th[t].pc = "sync_start" /\ th'[t].pc # "sync_start"
                        /\ ~chan[c].closed /\ chan[c].barrierPhase = 1
                        /\ th[t].op = th[chan[c].dataPtr].op) =>
                           /\ th'[t].pc = "sync_waitB"
                           /\ Unlocked(chan'[c]) = Unlocked(chan[c])]_vars

(* A sender is parked as first party while a second sender, which found the
   slot taken, is parked on condB. *)
C18_Witness ==
    \E f, u \in Threads :
        /\ f # u
        /\ chan["a"].barrierPhase = 1 /\ chan["a"].dataPtr = f
        /\ th[f].op = "send" /\ th[f].pc = "sync_waitA"
        /\ th[u].op = "send" /\ th[u].c = "a" /\ th[u].pc = "sync_waitB"
        /\ \E t \in Threads : th[t].op = "select" /\ th[t].pc = "sel_wait"

(* The number of transactions recorded on all channels. *)
Transactions(S, R) ==
    LET n[C \in SUBSET Chans] ==
            IF C = {} THEN 0
            ELSE LET c == CHOOSE x \in C : TRUE
                 IN  Len(S[c]) + Len(R[c]) + n[C \ {c}]
    IN  n[Chans]

(* C19: a call of select or nb_select commits on one arm at most.  Once
   doselect has chosen, the caller holds the srMtx of the chosen channel and
   of no other, and it holds none after the commit and on return; choosing
   releases the other ready channels without changing them; the commit is
   reached once per call and changes no other channel and records at most
   one transaction. *)
C19_SelectCommitsOne ==
    /\ [](\A t \in Threads :
            th[t].op \in {"select", "nb_select"} =>
                /\ th[t].pc = "ds_commit" =>
                       /\ th[t].sel.n \in ReadyArms(th[t].sel)
                       /\ Held(t) = {Arm(th[t].sel, th[t].sel.n)}
                       /\ ~th[t].sel.txn
                /\ (th[t].pc \in {"ds_sigall", "ds_sigcond", "sel_detach"} \/ Returned(t))
                       => Held(t) = {})
    /\ [][\A t \in Threads :
            (th[t].op \in {"select", "nb_select"} /\ th'[t] # th[t]) =>
                /\ th[t].pc = "ds_pick" =>
                       /\ \A c \in Chans : Unlocked(chan'[c]) = Unlocked(chan[c])
                       /\ sent' = sent /\ rcvd' = rcvd
                /\ th[t].pc = "ds_commit" =>
                       /\ \A c \in Chans \ {Arm(th[t].sel, th[t].sel.n)} : chan'[c] = chan[c]
                       /\ Transactions(sent', rcvd') <= Transactions(sent, rcvd) + 1
                /\ th[t].pc \in {"ds_sigall", "ds_sigcond", "sel_detach"} =>
                       /\ \A c \in Chans : [chan'[c] EXCEPT !.observer = <<>>]
                                               = [chan[c] EXCEPT !.observer = <<>>]
                       /\ sent' = sent /\ rcvd' = rcvd]_vars

(* A select found both of its arms ready, committed on one of them and has
   returned; the channel of the other arm is as it was created. *)
C19_Witness ==
    \E t \in Threads :
        /\ th[t].op = "select" /\ Returned(t) /\ th[t].ret = 0
        /\ Cardinality(ReadyArms(th[t].sel)) = 2
        /\ th[t].sel.txn
        /\ chan["b"] = CspChan_create(1)

(* C20: a blocking select whose poll skipped an open channel because the
   trylock of its srMtx failed is woken again by the thread that held it: it
   does not wait on its frame condvar forever after such a poll while all its
   channels stay open. *)
C20_SkippedChannelRewakes ==
    \A t \in Threads :
        ~<>[](/\ th[t].op = "select" /\ th[t].pc = "sel_wait" /\ th[t].sel.skipped
              /\ \A c \in ArmChans(t) : ~chan[c].closed)

(* C21: once closed is set on a buffered channel nothing is enqueued any more:
   no step raises msgCount or changes wIdx or the buffer contents, whether it
   is a plain send entered after close, a send that was parked on the full
   buffer when close came, or the send arm of a select or nb_select. *)
C21_NoEnqueueAfterClose ==
    [][\A c \in Chans :
          (~chan[c].unbuffered /\ chan[c].closed)
              => /\ chan'[c].msgCount <= chan[c].msgCount
                 /\ chan'[c].wIdx = chan[c].wIdx
                 /\ chan'[c].data = chan[c].data]_vars

(* Both sends of T2 are over with a closed and its one-slot buffer full, so
   the second send met close (before or while parked); T1's select committed
   its send arm on b after b was closed and moved nothing. *)
C21_Witness ==
    /\ chan["a"].closed /\ chan["a"].queueLen = 1 /\ chan["a"].msgCount = 1
    /\ Returned("T2") /\ todo["T2"] = <<>> /\ ~th["T2"].xfer
    /\ chan["b"].closed /\ chan["b"].msgCount = 0
    /\ Returned("T1") /\ th["T1"].op = "select" /\ th["T1"].ret = 1
    /\ ~th["T1"].sel.txn

(* A thread parked on a condition that no longer holds. *)
Starved(t) ==
    \/ th[t].pc = "send_wait" /\ ~is_full(Ch(t))
    \/ th[t].pc = "recv_wait" /\ ~is_empty(Ch(t))

(* A thread that returned, or is parked on a condition that holds. *)
Settled(t) ==
    \/ th[t].pc = "idle"
    \/ th[t].pc = "send_wait" /\ is_full(Ch(t))
    \/ th[t].pc = "recv_wait" /\ is_empty(Ch(t))

(* C22: on a buffered channel that is never closed, with several plain
   senders and receivers under fair scheduling, no wakeup is lost: a sender
   parked on condA while the buffer is not full returns or finds the buffer
   full again, a receiver parked on condB while the buffer is not empty
   returns or finds it empty again, and once every call of the program is
   made, the only threads left in a call are senders parked on a full buffer
   or receivers parked on an empty one. *)
C22_NoLostWakeup ==
    /\ \A t \in Threads : Starved(t) ~> Settled(t)
    /\ (\A t \in Threads : todo[t] = <<>>) ~> [](\A t \in Threads : Settled(t))

(* A sender woken from condA by a receive and a receiver woken from condB by
   a send, both about to take srMtx again, with a second sender still parked. *)
C22_Witness ==
    /\ th["T1"].pc = "send_wait"
    /\ th["T2"].pc = "send_relock"
    /\ \E r \in {"T3", "T4"} : th[r].pc = "recv_relock"

(* C23: every public operation (send, receive, close, select, nb_select)
   returns with no srMtx held by the calling thread, on every path, the
   closed-channel paths included. *)
C23_ReturnsUnlocked ==
    \A t \in Threads : Returned(t) => Held(t) = {}

(* Occurrences of v in the sequence q. *)
Count(q, v) == Cardinality({j \in 1..Len(q) : q[j] = v})

(* C24: on an unbuffered channel used by plain calls and select arms, every
   payload a completed receive obtained is the payload of a send, no send's
   payload reaches more receivers than there were sends of it, and the
   buffer of a parked first party is read or written only by a step that
   takes the channel from Waiting to Handoff, so by one counterpart per
   handoff. *)
C24_OneToOneHandoff ==
    /\ [](\A c \in Chans : chan[c].unbuffered =>
            /\ \A v \in 0..MaxVal : Count(rcvd[c], v) <= Count(sent[c], v)
            /\ (chan[c].barrierPhase = 1 => ~th[chan[c].dataPtr].xfer))
    /\ [][\A t \in Threads :
            (th[t].pc # "idle" /\ th[t].c # NoChan /\ Ch(t).unbuffered
             /\ ~th[t].xfer /\ th'[t].xfer)
                => /\ Ch(t).barrierPhase = 1 /\ chan'[th[t].c].barrierPhase = 2
                   /\ th[Ch(t).dataPtr].pc \in {"sync_waitA", "sync_relockA"}
                   /\ Cardinality({u \in Threads : th[u] # th'[u]}) = 2]_vars

(* Both selects returned with a transfer, T4 took T1's payload from the
   parked sender and T3 gave its own to the parked receiver T2. *)
C24_Witness ==
    /\ Returned("T3") /\ th["T3"].sel.txn
    /\ Returned("T4") /\ th["T4"].sel.txn /\ th["T4"].sel.data[1] = 1
    /\ Returned("T2") /\ th["T2"].xfer /\ th["T2"].buf = 2
    /\ Len(rcvd["a"]) = 2 /\ Len(sent["a"]) = 2

(* A thread inside select or nb_select that is running, not parked. *)
Selecting(t) ==
    th[t].op \in {"select", "nb_select"} /\ th[t].pc \notin {"idle", "sel_wait"}

(* A plain send or receive parked as first party of channel c. *)
PlainFirstParty(u, c) ==
    /\ th[u].op \in {"send", "receive"} /\ th[u].c = c
    /\ th[u].pc \in {"sync_waitA", "sync_relockA"}

(* C25: select and nb_select never become first party of an unbuffered
   channel: the first party of a channel in phase Waiting is a plain send or
   receive; a step of a select changes barrierPhase only from 1 to 2, and
   its commit on an unbuffered arm does so against a plain call parked as
   first party; and as long as no plain call and no close was made, no
   blocking select has returned. *)
C25_SelectNeverFirst ==
    /\ [](\A c \in Chans : (chan[c].unbuffered /\ chan[c].barrierPhase = 1) =>
            th[chan[c].dataPtr].op \in {"send", "receive"} /\ th[chan[c].dataPtr].c = c)
    /\ []((\A u \in Threads : th[u].op \notin {"send", "receive", "close"}) =>
            \A t \in Threads : th[t].op = "select" => th[t].pc # "idle")
    /\ [][\A t \in Threads : (Selecting(t) /\ th'[t] # th[t]) =>
            /\ \A c \in Chans :
                 (chan[c].unbuffered /\ chan'[c].barrierPhase # chan[c].barrierPhase)
                     => chan[c].barrierPhase = 1 /\ chan'[c].barrierPhase = 2
            /\ (th[t].pc = "ds_commit" /\ chan[Arm(th[t].sel, th[t].sel.n)].unbuffered) =>
                 LET c == Arm(th[t].sel, th[t].sel.n)
                 IN  /\ chan[c].barrierPhase = 1 /\ chan'[c].barrierPhase = 2
                     /\ PlainFirstParty(chan[c].dataPtr, c)]_vars

(* A select with a send arm and a select with a receive arm on the unbuffered
   channel a are both parked on their frame condvars after polling, and no
   other call was made on a. *)
C25_Witness ==
    /\ th["T3"].op = "select" /\ th["T3"].pc = "sel_wait"
    /\ th["T4"].op = "select" /\ th["T4"].pc = "sel_wait"
    /\ th["T1"].op = "none" /\ th["T2"].op = "none"
    /\ chan["a"].unbuffered /\ chan["a"].barrierPhase = 0

(* Slots of channel c's registry that hold the frame condvar of thread t. *)
SlotCount(c, t) ==
    Cardinality({p \in Slots(chan[c].observer) : chan[c].observer[p[1]][p[2]] = t})

(* C26: when a blocking select has returned, its frame condvar is in no slot
   of the signal registry of any channel, also when a channel is named in
   several arms and other selects attach and detach meanwhile. *)
C26_DetachedOnReturn ==
    \A t \in Threads :
        (th[t].op = "select" /\ Returned(t)) => \A c \in Chans : SlotCount(c, t) = 0

(* Arms of t's blocking select on channel c that are attached and not yet
   detached: the attach loop has passed sel.i arms, the detach loop has
   cleared sel.i arms, and in between all arms are attached. *)
Attached(t, c) ==
    LET f == th[t].sel
        on(K) == Cardinality({k \in K : k < Len(f.arms) /\ Arm(f, k) = c})
    IN  IF th[t].op # "select" \/ th[t].pc = "idle" THEN 0
        ELSE IF th[t].pc = "sel_attach" THEN on(0..(f.i - 1))
        ELSE IF th[t].pc = "sel_detach" THEN on(f.i..(Len(f.arms) - 1))
        ELSE on(0..(Len(f.arms) - 1))

(* C27: in every reachable state every non-null slot of a signal registry,
   head node and extension nodes, holds a condvar that was attached and not
   yet detached: each frame condvar fills as many slots as its select has
   arms attached on the channel, and no slot holds anything else; so the
   slots of a fresh extension node other than the first are null. *)
C27_RegistryHoldsAttached ==
    \A c \in Chans :
        /\ Registered(chan[c].observer) \subseteq Threads
        /\ \A t \in Threads : SlotCount(c, t) = Attached(t, c)

====
